---- MODULE Spec2Model ----
(***************************************************************************)
(* Model of the x402 facilitator's settlement path.                        *)
(*                                                                         *)
(* The /settle handler (src/src/routes/settle.ts, settlePaymentRoute) is   *)
(* an async function: between two awaits it runs without interruption, and *)
(* at every await other requests, the expiry sweep and the wall clock may  *)
(* advance.  Each action below is one such segment: the awaited operation  *)
(* taking effect followed by the handler's code up to its next await.      *)
(*                                                                         *)
(* The nonce store (lib/nonce-database), the wire format                   *)
(* (lib/payment-request) and the /verify and /store-nonce routes are       *)
(* called by the sources but are not among them; they are modelled from    *)
(* the contracts of spec.md sections 4.1, 3 and 4.5.                       *)
(*                                                                         *)
(* Spec is the settlement path with its store and sweep.  The other        *)
(* specifications look at one part each: SplitSpec and RevisionSpec at the *)
(* split validation, ClientSpec at a request of another client, RouteSpec  *)
(* at /verify and GET /nonce/:nonce, SignatureSpec at verifySignature on   *)
(* strings, StartSpec at start() and the cleanup interval.  SdkSpec is the *)
(* game SDK of the player's browser (src/src/sdk/gaming-sdk.ts) and        *)
(* WalletSpec the merchant wallet of the resource server's requests.       *)
(***************************************************************************)
EXTENDS Integers, FiniteSets, Sequences, TLC

\* ------------------------------------------------------------------ bounds
MaxReq == 2      \* number of /settle requests
MaxTime == 2     \* wall clock runs 0..MaxTime
MaxTotal == 6    \* amounts of the split specs run 0..MaxTotal

\* ---------------------------------------------------------------- universes
Req == 1..MaxReq
NonceIds == {"n1"}
Keys == {"clientA"}
\* a client to which no nonce is issued
OtherKey == "clientB"
Recipient == "merchant"
Amounts == {10}
Balances == {0, 10}
SignedTransactions == {[kind |-> "transfer", id |-> "tx1"]}
Null == [kind |-> "null"]

\* spec.md 4.1 create(amount, recipient, splitSpec?, ttl): the ttl of a nonce
NonceTTL == 1

\* ------------------------------------------------------------ error texts
\* an error message: its fixed text and the values interpolated into it
Msg(text, args) == [text |-> text, args |-> args]

ErrRequired == Msg("Payment request is required", <<>>)
ErrNotFound == Msg("Nonce not found - please verify payment first", <<>>)
ErrAlreadySettled == Msg("Payment already settled", <<>>)
ErrExpired == Msg("Nonce has expired", <<>>)
ErrAmountMismatch(expected, received) ==
  Msg("Amount mismatch. Expected: , Received: ", <<expected, received>>)
ErrFeeRequired == Msg("Tank Bank platform fee (40%) is required", <<>>)
ErrFeeShare(expected, received) ==
  Msg("Invalid Tank Bank share. Expected 40% (), Received: ", <<expected, received>>)
ErrCreatorShare(expected, received) ==
  Msg("Invalid creator share. Expected 60% (), Received: ", <<expected, received>>)
ErrInsufficient(required, available) ==
  Msg("Insufficient SOL balance. Required: , Available: ", <<required, available>>)
ErrMissingSigned == Msg("Missing signed transaction", <<>>)
ErrSubmit == Msg("Failed to submit sponsored transaction", <<>>)
ErrDeserialize == Msg("deserialize failed", <<>>)
ErrStorage == Msg("storage error", <<>>)
NoError == Msg("", <<>>)
\* the split validation found nothing wrong
Valid == Msg("ok", <<>>)
NoNonce == "none"

\* --------------------------------------------------------------- split data
DescFee == "Tank Bank platform fee (40%)"
DescCreator == "Creator share (60%)"
\* a description that includes neither 'Creator' nor '60%'
DescMerchant == "merchant share"

\* the descriptions for which description?.includes('Creator') ||
\* description?.includes('60%') holds
CreatorDescriptions == {DescCreator}

NoSplit == [enabled |-> FALSE, totalAmount |-> 0, recipients |-> <<>>]

GoodSplit ==
  [enabled |-> TRUE, totalAmount |-> 10,
   recipients |-> << [description |-> DescFee, amount |-> 4],
                     [description |-> DescCreator, amount |-> 6] >>]

BadFeeSplit ==
  [enabled |-> TRUE, totalAmount |-> 10,
   recipients |-> << [description |-> DescFee, amount |-> 2],
                     [description |-> DescCreator, amount |-> 8] >>]

SplitSpecs == {NoSplit, GoodSplit, BadFeeSplit}

Abs(x) == IF x < 0 THEN -x ELSE x

\* Array.prototype.find with a predicate on the description: the first
\* element whose description is one of descriptions, or Null
Find(seq, descriptions) ==
  LET hits == {i \in 1..Len(seq) : seq[i].description \in descriptions}
  IN  IF hits = {} THEN Null
      ELSE seq[CHOOSE i \in hits : \A j \in hits : i <= j]

\* Math.floor(actualAmount * 0.4) and Math.floor(actualAmount * 0.6); the
\* double products agree with the integer quotients on 0..200000
FloorShare40(a) == (a * 4) \div 10
FloorShare60(a) == (a * 6) \div 10

\* a validation that accepts the fee amount only when it equals the share
ValidateSplit_ExactFee(details) ==
  LET sp == details.splitPaymentData
      expectedTotal == sp.totalAmount
      actualAmount == details.amount
      tankBankRecipient == Find(sp.recipients, {DescFee})
      creatorRecipient == Find(sp.recipients, CreatorDescriptions)
      expectedTankBankShare == FloorShare40(actualAmount)
      expectedCreatorShare == FloorShare60(actualAmount)
  IN  IF ~sp.enabled THEN Valid
      ELSE IF actualAmount # expectedTotal
           THEN ErrAmountMismatch(expectedTotal, actualAmount)
      ELSE IF tankBankRecipient = Null THEN ErrFeeRequired
      ELSE IF tankBankRecipient.amount # expectedTankBankShare
           THEN ErrFeeShare(expectedTankBankShare, tankBankRecipient.amount)
      ELSE IF creatorRecipient # Null
              /\ Abs(creatorRecipient.amount - expectedCreatorShare) > 1
           THEN ErrCreatorShare(expectedCreatorShare, creatorRecipient.amount)
      ELSE Valid

\* a validation that checks the creator's amount before the fee amount
ValidateSplit_CreatorFirst(details) ==
  LET sp == details.splitPaymentData
      expectedTotal == sp.totalAmount
      actualAmount == details.amount
      tankBankRecipient == Find(sp.recipients, {DescFee})
      creatorRecipient == Find(sp.recipients, CreatorDescriptions)
      expectedTankBankShare == FloorShare40(actualAmount)
      expectedCreatorShare == FloorShare60(actualAmount)
  IN  IF ~sp.enabled THEN Valid
      ELSE IF actualAmount # expectedTotal
           THEN ErrAmountMismatch(expectedTotal, actualAmount)
      ELSE IF tankBankRecipient = Null THEN ErrFeeRequired
      ELSE IF creatorRecipient # Null
              /\ Abs(creatorRecipient.amount - expectedCreatorShare) > 1
           THEN ErrCreatorShare(expectedCreatorShare, creatorRecipient.amount)
      ELSE IF Abs(tankBankRecipient.amount - expectedTankBankShare) > 1
           THEN ErrFeeShare(expectedTankBankShare, tankBankRecipient.amount)
      ELSE Valid

\* settle.ts 61-114: Valid, or the message of the first failing check
ValidateSplit(details) ==
  LET sp == details.splitPaymentData
      expectedTotal == sp.totalAmount
      actualAmount == details.amount
      tankBankRecipient == Find(sp.recipients, {DescFee})
      creatorRecipient == Find(sp.recipients, CreatorDescriptions)
      expectedTankBankShare == FloorShare40(actualAmount)
      expectedCreatorShare == FloorShare60(actualAmount)
  IN  IF ~sp.enabled THEN Valid
      ELSE IF actualAmount # expectedTotal
           THEN ErrAmountMismatch(expectedTotal, actualAmount)
      ELSE IF tankBankRecipient = Null THEN ErrFeeRequired
      ELSE IF Abs(tankBankRecipient.amount - expectedTankBankShare) > 1
           THEN ErrFeeShare(expectedTankBankShare, tankBankRecipient.amount)
      ELSE IF creatorRecipient # Null
              /\ Abs(creatorRecipient.amount - expectedCreatorShare) > 1
           THEN ErrCreatorShare(expectedCreatorShare, creatorRecipient.amount)
      ELSE Valid

\* -- the fixed-fee revision of the validation (settle.ts 264-297)
DescProcessingFee == "Tank Bank processing fee"
TANK_BANK_FEE_USDC == 12500

ErrProcessingFeeRequired == Msg("Tank Bank processing fee is required", <<>>)
ErrFee(expected, received) ==
  Msg("Invalid Tank Bank fee. Expected: , Received: ", <<expected, received>>)

\* process.env.TANK_BANK_FEE_USDC: not set, or set to a text that starts with
\* the digits of n, or to one that starts with no digit
Unset == [set |-> FALSE]
Digits(n) == [set |-> TRUE, number |-> TRUE, value |-> n]
NoDigits == [set |-> TRUE, number |-> FALSE]

\* what parseInt yields: a number, or NaN
Num(n) == [nan |-> FALSE, value |-> n]
NaN == [nan |-> TRUE]

\* parseInt(process.env.TANK_BANK_FEE_USDC || '12500')
expectedTankBankFee(env) ==
  IF ~env.set THEN Num(TANK_BANK_FEE_USDC)
  ELSE IF env.number THEN Num(env.value)
  ELSE NaN

\* a validation that lets the fee be one unit off, as the 60/40 revision does
ValidateSplitFixedFee_Tolerance(details, env) ==
  LET sp == details.splitPaymentData
      expectedTotal == sp.totalAmount
      actualAmount == details.amount
      tankBankRecipient == Find(sp.recipients, {DescProcessingFee})
      expected == expectedTankBankFee(env)
  IN  IF ~sp.enabled THEN Valid
      ELSE IF actualAmount # expectedTotal
           THEN ErrAmountMismatch(expectedTotal, actualAmount)
      ELSE IF tankBankRecipient = Null THEN ErrProcessingFeeRequired
      ELSE IF expected.nan \/ Abs(tankBankRecipient.amount - expected.value) > 1
           THEN ErrFee(expected, tankBankRecipient.amount)
      ELSE Valid

\* settle.ts 264-297: Valid, or the message of the first failing check; NaN is
\* equal to no number
ValidateSplitFixedFee(details, env) ==
  LET sp == details.splitPaymentData
      expectedTotal == sp.totalAmount
      actualAmount == details.amount
      tankBankRecipient == Find(sp.recipients, {DescProcessingFee})
      expected == expectedTankBankFee(env)
  IN  IF ~sp.enabled THEN Valid
      ELSE IF actualAmount # expectedTotal
           THEN ErrAmountMismatch(expectedTotal, actualAmount)
      ELSE IF tankBankRecipient = Null THEN ErrProcessingFeeRequired
      ELSE IF expected.nan \/ tankBankRecipient.amount # expected.value
           THEN ErrFee(expected, tankBankRecipient.amount)
      ELSE Valid

\* ------------------------------------------------------------ wire values
\* A detached signature names the key that made it and the payload it was
\* made over; a forged one names no key.
SignatureBy(k, payload) == [signer |-> k, over |-> payload]
Forged == [signer |-> "nobody", over |-> Null]

\* part_002 81-92 (SolanaUtils.verifySignature): nacl.sign.detached.verify,
\* false on any decoding failure
verifySignature(message, signature, publicKey) ==
  /\ signature.signer = publicKey
  /\ signature.over = message

\* -- the same function on the strings it is given
\* how a call ends: it returns a value or it throws
Returned(v) == [threw |-> FALSE, value |-> v]
Thrown == [threw |-> TRUE]

\* byte lengths nacl.sign.detached.verify insists on (it throws otherwise)
SignatureLength == 64
PublicKeyLength == 32

\* a string is base58 or not; a base58 string stands for len bytes that read as
\* value
Text(len, value) == [base58 |-> TRUE, len |-> len, value |-> value]
NotBase58 == [base58 |-> FALSE]

\* bs58.decode: the bytes, or it throws on a character outside the alphabet
bs58decode(text) ==
  IF text.base58 THEN Returned([len |-> text.len, value |-> text.value]) ELSE Thrown

\* nacl.sign.detached.verify: throws on a bad signature or public key size
naclVerify(message, signatureBytes, publicKeyBytes) ==
  IF signatureBytes.len # SignatureLength THEN Thrown
  ELSE IF publicKeyBytes.len # PublicKeyLength THEN Thrown
  ELSE Returned(verifySignature(message, signatureBytes.value, publicKeyBytes.value))

\* part_002 83-87: the try block
verifySignatureTry(message, signature, publicKey) ==
  IF bs58decode(signature).threw THEN Thrown
  ELSE IF bs58decode(publicKey).threw THEN Thrown
  ELSE naclVerify(message, bs58decode(signature).value, bs58decode(publicKey).value)

\* the function without its catch block
verifySignatureText_NoCatch(message, signature, publicKey) ==
  verifySignatureTry(message, signature, publicKey)

\* part_002 81-92: the try block, and the catch block that returns false
verifySignatureText(message, signature, publicKey) ==
  IF verifySignatureTry(message, signature, publicKey).threw
  THEN Returned(FALSE)
  ELSE verifySignatureTry(message, signature, publicKey)

Payloads == {[nonce |-> n] : n \in NonceIds}

\* a well-signed request with its signed transfer, the same with a signature
\* that does not verify, and a well-signed one without signedTransaction
PaymentRequests ==
  UNION {UNION {{[payload |-> p, signature |-> SignatureBy(k, p),
                  clientPublicKey |-> k, signedTransaction |-> t] :
                    t \in SignedTransactions \cup {Null}}
                \cup {[payload |-> p, signature |-> Forged,
                       clientPublicKey |-> k, signedTransaction |-> t] :
                     t \in SignedTransactions} :
                k \in Keys} :
         p \in Payloads}

\* a request with its signed transfer that the other client made and signed
OtherRequests ==
  {[payload |-> p, signature |-> SignatureBy(OtherKey, p),
    clientPublicKey |-> OtherKey, signedTransaction |-> t] :
     p \in Payloads, t \in SignedTransactions}

\* req.body of a POST /settle: no paymentRequest field, one that does not
\* deserialize, or a serialized PaymentRequest
Bodies ==
  {[paymentRequest |-> Null], [paymentRequest |-> [kind |-> "garbage"]]}
  \cup {[paymentRequest |-> [kind |-> "json", value |-> p]] : p \in PaymentRequests}

\* req.body of a POST /settle of either client
ClientBodies ==
  Bodies \cup {[paymentRequest |-> [kind |-> "json", value |-> p]] : p \in OtherRequests}

\* PaymentRequest.deserialize: the request, or Null for "throws"
Deserialize(text) == IF text.kind = "json" THEN text.value ELSE Null

\* ------------------------------------------------------------------- state
VARIABLES
  now,                  \* Date.now()
  simulateTransactions, \* context.simulateTransactions
  nonces,               \* the NonceStore: nonce id -> NonceRecord
  issued,               \* nonce ids handed out so far
  audit,                \* the TransactionRecord log
  pc,                   \* where each /settle request stands
  body,                 \* req.body of each request
  nonceDetails,         \* the handler's local nonceDetails
  transactionSignature, \* the handler's local transactionSignature
  errorMessage,         \* the error caught by the handler's catch block
  response,             \* what res.json sent
  sent,                 \* requests whose transfer reached the ledger
  confirmed,            \* requests whose transfer the ledger confirmed
  updateResult,         \* outcome of each request's updateTransactionSignature
  updatedAfterExpiry,   \* requests that called it after the nonce's expiry
  failedBefore,         \* per request: the attempts already recorded 'failed' when it arrived
  named,                \* per request: the nonce its paymentRequest named
  settledRequest,       \* per request answered 'settled': the PaymentRequest it carried
  balanceCheck,         \* per request: requiredAmount and the clientBalance it read
  verifyResponse,       \* the last POST /verify: its request and what it answered
  verifyCall,           \* a call of SolanaUtils.verifySignature: arguments and outcome
  splitCall,            \* a split spec put to the split validation of both revisions
  server,               \* the process: where start() stands, the cleanup interval, its runs
  nonceResponse,        \* the last GET /nonce/:nonce: its nonce and what it answered
  sdk,                  \* a TankBankGamingSDK: its wallet, its session, its startGame calls
  walletRequest         \* a request to the resource server and its merchant wallet

vars == << now, simulateTransactions, nonces, issued, audit, pc, body,
           nonceDetails, transactionSignature, errorMessage, response,
           sent, confirmed, updateResult, updatedAfterExpiry, failedBefore,
           named, settledRequest, balanceCheck, verifyResponse,
           verifyCall, splitCall, server, nonceResponse, sdk, walletRequest >>

storeVars == << nonces, issued >>
histVars == << sent, confirmed, updateResult, updatedAfterExpiry, failedBefore,
              named, settledRequest, balanceCheck >>
\* the state of the other routes and of the calls looked at on their own
routeVars == << verifyResponse, verifyCall, splitCall, server, nonceResponse,
               sdk, walletRequest >>

\* the process once start() is through: the cleanup interval is set and the
\* server listens
Started ==
  [state |-> "running", interval |-> TRUE, lastCleanup |-> "none", runs |-> 0,
   caught |-> FALSE]

InitRoutes ==
  /\ verifyResponse = Null
  /\ nonceResponse = Null
  /\ server = Started

InitCalls ==
  /\ verifyCall = Null
  /\ splitCall = Null
  /\ sdk = Null
  /\ walletRequest = Null

InitSettle ==
  /\ now = 0
  /\ simulateTransactions \in BOOLEAN
  /\ nonces = [n \in NonceIds |-> Null]
  /\ issued = {}
  /\ audit = {}
  /\ pc = [r \in Req |-> "idle"]
  /\ body = [r \in Req |-> Null]
  /\ nonceDetails = [r \in Req |-> Null]
  /\ transactionSignature = [r \in Req |-> Null]
  /\ errorMessage = [r \in Req |-> NoError]
  /\ response = [r \in Req |-> Null]
  /\ sent = {}
  /\ confirmed = {}
  /\ updateResult = [r \in Req |-> "none"]
  /\ updatedAfterExpiry = {}
  /\ failedBefore = [r \in Req |-> {}]
  /\ named = [r \in Req |-> NoNonce]
  /\ settledRequest = [r \in Req |-> Null]
  /\ balanceCheck = [r \in Req |-> Null]

Init == InitSettle /\ InitRoutes /\ InitCalls

\* everything of the facilitator process
facilitatorVars ==
  << now, simulateTransactions, storeVars, audit, pc, body, nonceDetails,
     transactionSignature, errorMessage, response, histVars, verifyResponse,
     verifyCall, splitCall, server, nonceResponse >>

\* ------------------------------------------------- the nonce store (spec 4.1)
\* create(amount, recipient, splitSpec?, ttl) -> NonceRecord
NewRecord(amount, client, split) ==
  [amount |-> amount, clientPublicKey |-> client, recipient |-> Recipient,
   expiry |-> now + NonceTTL, splitPaymentData |-> split,
   transactionSignature |-> Null, status |-> "Pending"]

\* get(nonce) -> NonceRecord | NotFound
getNonceDetails(n) == nonces[n]

\* markSettled(nonce, txSig) -> ok | AlreadySettled | NotFound | Expired
MarkSettledResult(n) ==
  IF nonces[n] = Null THEN "NotFound"
  ELSE IF nonces[n].transactionSignature # Null THEN "AlreadySettled"
  ELSE IF now > nonces[n].expiry THEN "Expired"
  ELSE "ok"

\* a store that writes the signature of any record it finds, set or not
updateTransactionSignature_Overwrite(n, sig) ==
  IF nonces[n] = Null
  THEN nonces
  ELSE [nonces EXCEPT ![n] = [@ EXCEPT !.transactionSignature = sig,
                                       !.status = "Settled"]]

\* ... "set transactionSignature only if currently null"
updateTransactionSignature(n, sig) ==
  IF MarkSettledResult(n) = "ok"
  THEN [nonces EXCEPT ![n] = [@ EXCEPT !.transactionSignature = sig,
                                       !.status = "Settled"]]
  ELSE nonces

\* sweepExpired() -> count: the records it deletes
SweepSet ==
  {n \in NonceIds : /\ nonces[n] # Null
                    /\ nonces[n].transactionSignature = Null
                    /\ now > nonces[n].expiry}

cleanupExpiredNonces == [n \in NonceIds |-> IF n \in SweepSet THEN Null ELSE nonces[n]]

\* recordAttempt(TransactionRecord): append-only; "never fails the caller's
\* flow even if persistence of the audit row fails": the call always returns,
\* with the row appended or, when persisting failed, without it
storeTransaction(rec, persisted) == IF persisted THEN audit \cup {rec} ELSE audit

\* ---------------------------------------------------- handler's local names
paymentReq(r) == Deserialize(body[r].paymentRequest)
nonceOf(r) == paymentReq(r).payload.nonce

\* res.json(...) without res.status(...): HTTP 200
Settled(sig) == [http |-> 200, status |-> "settled", transactionSignature |-> sig]
Error(msg) == [http |-> 200, status |-> "error", error |-> msg]

\* res.json(...) and return: the request is over, its locals are gone
Respond(r, resp) ==
  /\ response' = [response EXCEPT ![r] = resp]
  /\ pc' = [pc EXCEPT ![r] = "done"]
  /\ body' = [body EXCEPT ![r] = Null]
  /\ nonceDetails' = [nonceDetails EXCEPT ![r] = Null]
  /\ transactionSignature' = [transactionSignature EXCEPT ![r] = Null]
  /\ errorMessage' = [errorMessage EXCEPT ![r] = NoError]

\* throw inside the try block: control goes to the catch block, which awaits
\* storeTransaction (settle.ts 184-194)
Throw(r, msg) ==
  /\ errorMessage' = [errorMessage EXCEPT ![r] = msg]
  /\ pc' = [pc EXCEPT ![r] = "catch"]
  /\ UNCHANGED << response, body, nonceDetails, transactionSignature >>

\* the handler awaits its next call
Await(r, call) ==
  /\ pc' = [pc EXCEPT ![r] = call]
  /\ UNCHANGED << response, body, errorMessage >>

\* --------------------------------------------------------------- issuance
\* POST /store-nonce: a fresh nonce is stored
StoreNonce(n, amount, client, split) ==
  /\ n \notin issued
  /\ issued' = issued \cup {n}
  /\ nonces' = [nonces EXCEPT ![n] = NewRecord(amount, client, split)]
  /\ UNCHANGED << now, simulateTransactions, routeVars, audit, pc, body, nonceDetails,
                  transactionSignature, errorMessage, response, histVars >>

\* POST /verify (spec 4.5): NonceIssued -> Verified when every guard holds; a
\* failing /verify leaves every record as it is and is not a step
VerifyGuards(p) ==
  LET d == getNonceDetails(p.payload.nonce)
  IN  /\ d # Null
      /\ ~(now > d.expiry)
      /\ verifySignature(p.payload, p.signature, p.clientPublicKey)
      /\ ValidateSplit(d) = Valid

Verify(p) ==
  /\ VerifyGuards(p)
  /\ nonces[p.payload.nonce].status = "Pending"
  /\ nonces' = [nonces EXCEPT ![p.payload.nonce].status = "Verified"]
  /\ UNCHANGED << now, simulateTransactions, routeVars, issued, audit, pc, body, nonceDetails,
                  transactionSignature, errorMessage, response, histVars >>

\* the typed errors of /verify (spec.md section 6)
NonceNotFound == Msg("NonceNotFound", <<>>)
Expired == Msg("Expired", <<>>)
SignatureInvalid == Msg("SignatureInvalid", <<>>)
SplitMismatch(reason) == Msg("SplitMismatch", <<reason>>)

\* a /verify that checks the signature before the expiry
VerifyOutcome_SignatureFirst(p) ==
  LET d == getNonceDetails(p.payload.nonce)
  IN  IF d = Null THEN NonceNotFound
      ELSE IF ~verifySignature(p.payload, p.signature, p.clientPublicKey)
           THEN SignatureInvalid
      ELSE IF now > d.expiry THEN Expired
      ELSE IF ValidateSplit(d) # Valid THEN SplitMismatch(ValidateSplit(d))
      ELSE Valid

\* the guards of verify in their order: nonce exists and is not expired;
\* signature valid over the payload under the claimed key; split spec passes
VerifyOutcome(p) ==
  LET d == getNonceDetails(p.payload.nonce)
  IN  IF d = Null THEN NonceNotFound
      ELSE IF now > d.expiry THEN Expired
      ELSE IF ~verifySignature(p.payload, p.signature, p.clientPublicKey)
           THEN SignatureInvalid
      ELSE IF ValidateSplit(d) # Valid THEN SplitMismatch(ValidateSplit(d))
      ELSE Valid

\* {status: "verified"} or the typed error
VerifyAnswer(outcome) ==
  IF outcome = Valid THEN [http |-> 200, status |-> "verified"] ELSE Error(outcome)

\* POST /verify as a whole: the answer, and NonceIssued -> Verified when every
\* guard holds; any guard failure leaves the record as it is
VerifyRoute(p) ==
  /\ verifyResponse' = [request |-> p, answer |-> VerifyAnswer(VerifyOutcome(p))]
  /\ nonces' = IF VerifyOutcome(p) = Valid /\ nonces[p.payload.nonce].status = "Pending"
               THEN [nonces EXCEPT ![p.payload.nonce].status = "Verified"]
               ELSE nonces
  /\ UNCHANGED << now, simulateTransactions, sdk, walletRequest, nonceResponse,
                  verifyCall, splitCall, server, issued, audit, pc, body, nonceDetails,
                  transactionSignature, errorMessage, response, histVars >>

\* res.status(404).json({error: 'Nonce not found'}), res.json({data: details})
\* and res.status(500).json({error: error.message})
NonceNotFound404 == [http |-> 404, error |-> Msg("Nonce not found", <<>>)]
NonceData(details) == [http |-> 200, data |-> details]
NonceError500 == [http |-> 500, error |-> ErrStorage]

\* a route that answers 200 with whatever the lookup returned
GetNonceRoute_NoNotFound(n) ==
  /\ \E storageFails \in BOOLEAN :
       nonceResponse' =
         [nonce |-> n, threw |-> storageFails,
          answer |-> IF storageFails THEN NonceError500
                     ELSE NonceData(getNonceDetails(n))]
  /\ UNCHANGED << now, simulateTransactions, sdk, walletRequest, verifyResponse,
                  verifyCall, splitCall, server, storeVars, audit, pc, body, nonceDetails,
                  transactionSignature, errorMessage, response, histVars >>

\* settle.ts 401-417 (getNonceRoute): GET /nonce/:nonce; getNonceDetails
\* resolves, or rejects with a storage error
GetNonceRoute(n) ==
  /\ \E storageFails \in BOOLEAN :
       nonceResponse' =
         [nonce |-> n, threw |-> storageFails,
          answer |-> IF storageFails THEN NonceError500
                     ELSE IF getNonceDetails(n) = Null THEN NonceNotFound404
                     ELSE NonceData(getNonceDetails(n))]
  /\ UNCHANGED << now, simulateTransactions, sdk, walletRequest, verifyResponse,
                  verifyCall, splitCall, server, storeVars, audit, pc, body, nonceDetails,
                  transactionSignature, errorMessage, response, histVars >>

\* ------------------------------------------------------------ POST /settle
\* the attempts the audit log records as failed
FailedAttempts == {rec.attempt : rec \in {x \in audit : x.status = "failed"}}

\* settle.ts 32-46: up to the await of getNonceDetails
Receive(r, b) ==
  /\ pc[r] = "idle"
  /\ \A q \in Req : q < r => pc[q] # "idle"
  /\ failedBefore' = [failedBefore EXCEPT ![r] = FailedAttempts]
  /\ IF b.paymentRequest = Null
       THEN /\ Respond(r, Error(ErrRequired))
            /\ UNCHANGED named
     ELSE IF Deserialize(b.paymentRequest) = Null
       THEN /\ Respond(r, Error(ErrDeserialize))
            /\ UNCHANGED named
     ELSE /\ body' = [body EXCEPT ![r] = b]
          /\ named' = [named EXCEPT ![r] = Deserialize(b.paymentRequest).payload.nonce]
          /\ pc' = [pc EXCEPT ![r] = "getNonceDetails"]
          /\ UNCHANGED << response, nonceDetails, transactionSignature, errorMessage >>
  /\ UNCHANGED << now, simulateTransactions, routeVars, storeVars, audit, sent, confirmed,
                  updateResult, updatedAfterExpiry, settledRequest, balanceCheck >>

\* settle.ts 140: 'x402-demo-' + Date.now() + '-' + Math.random()
DemoSignature(r) == [kind |-> "demo", rnd |-> r]

\* the signature the ledger gives a transfer is a function of the transfer
ChainSignature(tx) == [kind |-> "chain", tx |-> tx]

\* what the handler still reads of nonceDetails after the guards: amount
\* (settle.ts 118), recipient (settle.ts 168); expiry is kept for reference
Kept(d) == [amount |-> d.amount, recipient |-> d.recipient, expiry |-> d.expiry]

\* a handler that queries the balance in either mode
AfterGuards_AlwaysQueries(r, d) ==
  /\ nonceDetails' = [nonceDetails EXCEPT ![r] = Kept(d)]
  /\ UNCHANGED transactionSignature
  /\ Await(r, "getSOLBalance")

\* settle.ts 116-140: past the guards the handler awaits the balance query
\* (real mode) or makes the demo signature and awaits the store update
AfterGuards(r, d) ==
  /\ nonceDetails' = [nonceDetails EXCEPT ![r] = Kept(d)]
  /\ IF simulateTransactions
     THEN /\ transactionSignature' = [transactionSignature EXCEPT ![r] = DemoSignature(r)]
          /\ Await(r, "updateTransactionSignature")
     ELSE /\ UNCHANGED transactionSignature
          /\ Await(r, "getSOLBalance")

\* a handler that throws for an unknown nonce, so that its catch block runs
Guards_ThrowsNotFound(r, d) ==
  IF d = Null THEN Throw(r, ErrNotFound)
  ELSE IF d.transactionSignature # Null THEN Respond(r, Error(ErrAlreadySettled))
  ELSE IF now > d.expiry THEN Respond(r, Error(ErrExpired))
  ELSE IF ValidateSplit(d) # Valid THEN Respond(r, Error(ValidateSplit(d)))
  ELSE AfterGuards(r, d)

\* settle.ts 46-114: the guards on the record getNonceDetails returned
Guards(r, d) ==
  IF d = Null THEN Respond(r, Error(ErrNotFound))
  ELSE IF d.transactionSignature # Null THEN Respond(r, Error(ErrAlreadySettled))
  ELSE IF now > d.expiry THEN Respond(r, Error(ErrExpired))
  ELSE IF ValidateSplit(d) # Valid THEN Respond(r, Error(ValidateSplit(d)))
  ELSE AfterGuards(r, d)

\* settle.ts 46-140: getNonceDetails resolves, or rejects with a storage error
GetNonce(r) ==
  /\ pc[r] = "getNonceDetails"
  /\ \E storageFails \in BOOLEAN :
       IF storageFails THEN Throw(r, ErrStorage)
       ELSE Guards(r, getNonceDetails(nonceOf(r)))
  /\ UNCHANGED << now, simulateTransactions, routeVars, storeVars, audit, histVars >>

\* part_002 55-64 (SolanaUtils.getSOLBalance): the balance the ledger reports,
\* or 0 when the query throws
getSOLBalance(queryFails, balance) == IF queryFails THEN 0 ELSE balance

\* a handler without the balance check
Balance_NoCheck(r) ==
  /\ pc[r] = "getSOLBalance"
  /\ \E queryFails \in BOOLEAN, balance \in Balances :
     LET clientBalance == getSOLBalance(queryFails, balance) IN
       /\ balanceCheck' = [balanceCheck EXCEPT
            ![r] = [requiredAmount |-> nonceDetails[r].amount,
                    account |-> paymentReq(r).clientPublicKey,
                    clientBalance |-> clientBalance,
                    queryFailed |-> queryFails]]
       /\ IF paymentReq(r).signedTransaction = Null
            THEN Throw(r, ErrMissingSigned)
          ELSE /\ Await(r, "sendRawTransaction")
               /\ UNCHANGED << nonceDetails, transactionSignature >>
  /\ UNCHANGED << now, simulateTransactions, routeVars, storeVars, audit, sent, confirmed,
                  updateResult, updatedAfterExpiry, failedBefore, named,
                  settledRequest >>

\* settle.ts 118-154: getSOLBalance(clientPublicKey) resolves; balance check;
\* signedTransaction check;
\* submitSponsoredTransaction is called
Balance(r) ==
  /\ pc[r] = "getSOLBalance"
  /\ \E queryFails \in BOOLEAN, balance \in Balances :
     LET clientBalance == getSOLBalance(queryFails, balance) IN
       /\ balanceCheck' = [balanceCheck EXCEPT
            ![r] = [requiredAmount |-> nonceDetails[r].amount,
                    account |-> paymentReq(r).clientPublicKey,
                    clientBalance |-> clientBalance,
                    queryFailed |-> queryFails]]
       /\ IF clientBalance < nonceDetails[r].amount
            THEN Respond(r, Error(ErrInsufficient(nonceDetails[r].amount, clientBalance)))
          ELSE IF paymentReq(r).signedTransaction = Null
            THEN Throw(r, ErrMissingSigned)
          ELSE /\ Await(r, "sendRawTransaction")
               /\ UNCHANGED << nonceDetails, transactionSignature >>
  /\ UNCHANGED << now, simulateTransactions, routeVars, storeVars, audit, sent, confirmed,
                  updateResult, updatedAfterExpiry, failedBefore, named,
                  settledRequest >>

\* part_002 266-288: the transfer is co-signed and sent; sendRawTransaction
\* either hands it to the ledger or throws
SendRaw(r) ==
  /\ pc[r] = "sendRawTransaction"
  /\ \E accepted \in BOOLEAN :
       IF accepted
       THEN /\ sent' = sent \cup {r}
            /\ Await(r, "confirmTransaction")
            /\ UNCHANGED << nonceDetails, transactionSignature >>
       ELSE /\ Throw(r, ErrSubmit)
            /\ UNCHANGED sent
  /\ UNCHANGED << now, simulateTransactions, routeVars, storeVars, audit, confirmed,
                  updateResult, updatedAfterExpiry, failedBefore, named,
                  settledRequest, balanceCheck >>

\* a handler for which the recipient's balance is a gate: it fails the
\* settlement when the balance read after the confirmation is below the amount
Confirm_ChecksRecipient(r) ==
  /\ pc[r] = "confirmTransaction"
  /\ \E inTime \in BOOLEAN, recipientBalance \in Balances :
       IF inTime
       THEN /\ confirmed' = confirmed \cup {r}
            /\ IF recipientBalance < nonceDetails[r].amount
               THEN Throw(r, ErrSubmit)
               ELSE /\ transactionSignature' =
                         [transactionSignature EXCEPT
                            ![r] = ChainSignature(paymentReq(r).signedTransaction)]
                    /\ Await(r, "updateTransactionSignature")
                    /\ UNCHANGED nonceDetails
       ELSE /\ Throw(r, ErrSubmit)
            /\ UNCHANGED confirmed
  /\ UNCHANGED << now, simulateTransactions, routeVars, storeVars, audit, sent,
                  updateResult, updatedAfterExpiry, failedBefore, named,
                  settledRequest, balanceCheck >>

\* part_002 291-298 and settle.ts 154-173: the confirmation wait ends with the
\* signature or with a timeout; getSOLBalance(recipient) is awaited next, its
\* value is dropped and it cannot reject (part_002 60-63), so the handler goes
\* on to call updateTransactionSignature whatever the query yields
Confirm(r) ==
  /\ pc[r] = "confirmTransaction"
  /\ \E inTime \in BOOLEAN, recipientBalance \in Balances :
       IF inTime
       THEN /\ confirmed' = confirmed \cup {r}
            /\ transactionSignature' =
                 [transactionSignature EXCEPT
                    ![r] = ChainSignature(paymentReq(r).signedTransaction)]
            /\ Await(r, "updateTransactionSignature")
            /\ UNCHANGED nonceDetails
       ELSE /\ Throw(r, ErrSubmit)
            /\ UNCHANGED confirmed
  /\ UNCHANGED << now, simulateTransactions, routeVars, storeVars, audit, sent,
                  updateResult, updatedAfterExpiry, failedBefore, named,
                  settledRequest, balanceCheck >>

\* settle.ts 173-176: updateTransactionSignature takes effect in the store (or
\* rejects with a storage error); its result is not looked at; storeTransaction
\* is called
Update(r) ==
  /\ pc[r] = "updateTransactionSignature"
  /\ updatedAfterExpiry' =
       IF now > nonceDetails[r].expiry THEN updatedAfterExpiry \cup {r}
       ELSE updatedAfterExpiry
  /\ \E storageFails \in BOOLEAN :
       IF storageFails
       THEN /\ Throw(r, ErrStorage)
            /\ updateResult' = [updateResult EXCEPT ![r] = "StorageError"]
            /\ UNCHANGED nonces
       ELSE /\ nonces' = updateTransactionSignature(nonceOf(r), transactionSignature[r])
            /\ updateResult' = [updateResult EXCEPT ![r] = MarkSettledResult(nonceOf(r))]
            /\ Await(r, "storeTransaction")
            /\ UNCHANGED << nonceDetails, transactionSignature >>
  /\ UNCHANGED << now, simulateTransactions, routeVars, issued, audit, sent, confirmed,
                  failedBefore, named, settledRequest, balanceCheck >>

\* the TransactionRecord of settle.ts 176-180; attempt names the request that
\* wrote it
ConfirmedRecord(r) ==
  [nonce |-> nonceOf(r), transactionSignature |-> transactionSignature[r],
   status |-> "confirmed", errorMessage |-> NoError, attempt |-> r]

\* the TransactionRecord of settle.ts 188-193
FailedRecord(r) ==
  [nonce |-> nonceOf(r), transactionSignature |-> Null,
   status |-> "failed", errorMessage |-> errorMessage[r], attempt |-> r]

\* a handler that answers 'settled' only when the audit row was persisted
StoreConfirmed_ChecksPersisted(r) ==
  /\ pc[r] = "storeTransaction"
  /\ \E persisted \in BOOLEAN :
       /\ audit' = storeTransaction(ConfirmedRecord(r), persisted)
       /\ IF persisted
          THEN /\ settledRequest' = [settledRequest EXCEPT ![r] = paymentReq(r)]
               /\ Respond(r, Settled(transactionSignature[r]))
          ELSE /\ UNCHANGED settledRequest
               /\ Respond(r, Error(ErrStorage))
  /\ UNCHANGED << now, simulateTransactions, routeVars, storeVars, sent, confirmed,
                  updateResult, updatedAfterExpiry, failedBefore, named,
                  balanceCheck >>

\* settle.ts 176-183: storeTransaction returns, with the 'confirmed'
\* TransactionRecord persisted or not, and {status: 'settled'} is sent
StoreConfirmed(r) ==
  /\ pc[r] = "storeTransaction"
  /\ \E persisted \in BOOLEAN :
       audit' = storeTransaction(ConfirmedRecord(r), persisted)
  /\ settledRequest' = [settledRequest EXCEPT ![r] = paymentReq(r)]
  /\ Respond(r, Settled(transactionSignature[r]))
  /\ UNCHANGED << now, simulateTransactions, routeVars, storeVars, sent, confirmed,
                  updateResult, updatedAfterExpiry, failedBefore, named,
                  balanceCheck >>

\* settle.ts 184-199: the catch block calls storeTransaction with a 'failed'
\* TransactionRecord and sends {status: 'error'}
StoreFailed(r) ==
  /\ pc[r] = "catch"
  /\ \E persisted \in BOOLEAN :
       audit' = storeTransaction(FailedRecord(r), persisted)
  /\ Respond(r, Error(errorMessage[r]))
  /\ UNCHANGED << now, simulateTransactions, routeVars, storeVars, histVars >>

\* ------------------------------------------------------------ expiry sweep
\* a sweep that finds nothing to delete changes nothing and is not a step
\* facilitator/index.ts 185-194: the setInterval callback
CleanupInterval ==
  /\ SweepSet # {}
  /\ nonces' = cleanupExpiredNonces
  /\ UNCHANGED << now, simulateTransactions, routeVars, issued, audit, pc, body, nonceDetails,
                  transactionSignature, errorMessage, response, histVars >>

\* routes/stats.ts 31-42: POST /cleanup; it answers {data: {cleaned}} with
\* cleaned the number of records the sweep deleted
cleaned == Cardinality(SweepSet)

CleanupRoute ==
  /\ SweepSet # {}
  /\ nonces' = cleanupExpiredNonces
  /\ UNCHANGED << now, simulateTransactions, routeVars, issued, audit, pc, body, nonceDetails,
                  transactionSignature, errorMessage, response, histVars >>

\* the wall clock.  The handlers and the store only compare Date.now() with an
\* expiry, so time is counted from the first issuance and up to the first
\* instant past the last expiry: no comparison tells later instants apart
Tick ==
  /\ now < MaxTime
  /\ issued # {}
  /\ \E n \in NonceIds : nonces[n] # Null /\ ~(now > nonces[n].expiry)
  /\ now' = now + 1
  /\ UNCHANGED << simulateTransactions, routeVars, storeVars, audit, pc, body, nonceDetails,
                  transactionSignature, errorMessage, response, histVars >>

Next ==
  \/ \E n \in NonceIds, a \in Amounts, k \in Keys, sp \in SplitSpecs : StoreNonce(n, a, k, sp)
  \/ \E p \in PaymentRequests : Verify(p)
  \/ \E r \in Req, b \in Bodies : Receive(r, b)
  \/ \E r \in Req : GetNonce(r)
  \/ \E r \in Req : Balance(r)
  \/ \E r \in Req : SendRaw(r)
  \/ \E r \in Req : Confirm(r)
  \/ \E r \in Req : Update(r)
  \/ \E r \in Req : StoreConfirmed(r)
  \/ \E r \in Req : StoreFailed(r)
  \/ CleanupInterval
  \/ CleanupRoute
  \/ Tick

Spec == Init /\ [][Next]_vars

\* ------------------------------------------------- split validation alone
\* One stored nonce of amount t in 1..MaxTotal with any enabled split spec
\* over amounts 0..MaxTotal: totalAmount t or t + 1, a platform-fee recipient or none, then
\* a second recipient described as creator or as merchant, or none
RecipientLists ==
  {fee \o primary :
     fee \in {<<>>} \cup {<<[description |-> DescFee, amount |-> f]>> :
                            f \in 0..MaxTotal},
     primary \in {<<>>} \cup {<<[description |-> d, amount |-> c]>> :
                                d \in {DescCreator, DescMerchant},
                                c \in 0..MaxTotal}}

SplitFamily(t) ==
  {[enabled |-> TRUE, totalAmount |-> total, recipients |-> rs] :
     total \in {t, t + 1}, rs \in RecipientLists}

\* the state after POST /store-nonce stored that nonce
InitSplit ==
  /\ now = 0
  /\ simulateTransactions \in BOOLEAN
  /\ \E t \in 1..MaxTotal, k \in Keys :
       \E sp \in SplitFamily(t) :
         nonces = [n \in NonceIds |-> NewRecord(t, k, sp)]
  /\ issued = NonceIds
  /\ audit = {}
  /\ pc = [r \in Req |-> "idle"]
  /\ body = [r \in Req |-> Null]
  /\ nonceDetails = [r \in Req |-> Null]
  /\ transactionSignature = [r \in Req |-> Null]
  /\ errorMessage = [r \in Req |-> NoError]
  /\ response = [r \in Req |-> Null]
  /\ sent = {}
  /\ confirmed = {}
  /\ updateResult = [r \in Req |-> "none"]
  /\ updatedAfterExpiry = {}
  /\ failedBefore = [r \in Req |-> {}]
  /\ named = [r \in Req |-> NoNonce]
  /\ settledRequest = [r \in Req |-> Null]
  /\ balanceCheck = [r \in Req |-> Null]
  /\ InitRoutes
  /\ InitCalls

\* one POST /settle for it
NextSplit ==
  \/ \E b \in Bodies : Receive(1, b)
  \/ GetNonce(1)
  \/ Balance(1)
  \/ SendRaw(1)
  \/ Confirm(1)
  \/ Update(1)
  \/ StoreConfirmed(1)
  \/ StoreFailed(1)

SplitSpec == InitSplit /\ [][NextSplit]_vars

\* ------------------------------------------------- one request of any client
\* a nonce is issued to a client of Keys; one POST /settle comes from that
\* client or from the other one
NextClient ==
  \/ \E n \in NonceIds, a \in Amounts, k \in Keys, sp \in SplitSpecs : StoreNonce(n, a, k, sp)
  \/ \E b \in ClientBodies : Receive(1, b)
  \/ GetNonce(1)
  \/ Balance(1)
  \/ SendRaw(1)
  \/ Confirm(1)
  \/ Update(1)
  \/ StoreConfirmed(1)
  \/ StoreFailed(1)
  \/ Tick

ClientSpec == Init /\ [][NextClient]_vars

\* ------------------------------------------------------- start() and after
Starting ==
  [state |-> "starting", interval |-> FALSE, lastCleanup |-> "none", runs |-> 0,
   caught |-> FALSE]

InitStart ==
  /\ InitSettle
  /\ InitCalls
  /\ verifyResponse = Null
  /\ nonceResponse = Null
  /\ server = Starting

\* facilitator/index.ts 182-201: nonceDb.initialize() resolves, then setInterval
\* and app.listen are called
InitializeResolves ==
  /\ server.state = "starting"
  /\ server' = [server EXCEPT !.state = "running", !.interval = TRUE]
  /\ UNCHANGED << now, simulateTransactions, sdk, walletRequest, nonceResponse,
                  verifyResponse, verifyCall, splitCall,
                  storeVars, audit, pc, body, nonceDetails, transactionSignature,
                  errorMessage, response, histVars >>

\* facilitator/index.ts 202-205: nonceDb.initialize() rejects: process.exit(1)
InitializeRejects ==
  /\ server.state = "starting"
  /\ server' = [server EXCEPT !.state = "exit 1"]
  /\ UNCHANGED << now, simulateTransactions, sdk, walletRequest, nonceResponse,
                  verifyResponse, verifyCall, splitCall,
                  storeVars, audit, pc, body, nonceDetails, transactionSignature,
                  errorMessage, response, histVars >>

\* an interval callback without its try and catch: the rejection of
\* cleanupExpiredNonces is unhandled and ends the process
CleanupIntervalRun_NoCatch ==
  /\ server.state = "running"
  /\ server.interval
  /\ \E throws \in BOOLEAN :
       IF throws
       THEN /\ nonces' = nonces
            /\ server' = [server EXCEPT !.state = "crashed", !.lastCleanup = "failed",
                                        !.runs = 1 - @]
       ELSE /\ nonces' = cleanupExpiredNonces
            /\ server' = [server EXCEPT !.lastCleanup = "ok", !.runs = 1 - @]
  /\ UNCHANGED << now, simulateTransactions, sdk, walletRequest, nonceResponse,
                  verifyResponse, verifyCall, splitCall,
                  issued, audit, pc, body, nonceDetails, transactionSignature,
                  errorMessage, response, histVars >>

\* facilitator/index.ts 185-194: one run of the interval callback, whether or
\* not it finds a record to delete; cleanupExpiredNonces may throw, which is
\* caught and logged.  runs is the parity of the number of runs, caught tells
\* whether the catch block has run
CleanupIntervalRun ==
  /\ server.state = "running"
  /\ server.interval
  /\ \E throws \in BOOLEAN :
       IF throws
       THEN /\ nonces' = nonces
            /\ server' = [server EXCEPT !.lastCleanup = "failed", !.runs = 1 - @,
                                        !.caught = TRUE]
       ELSE /\ nonces' = cleanupExpiredNonces
            /\ server' = [server EXCEPT !.lastCleanup = "ok", !.runs = 1 - @]
  /\ UNCHANGED << now, simulateTransactions, sdk, walletRequest, nonceResponse,
                  verifyResponse, verifyCall, splitCall,
                  issued, audit, pc, body, nonceDetails, transactionSignature,
                  errorMessage, response, histVars >>

\* facilitator/index.ts 210-218: SIGINT or SIGTERM: process.exit(0)
Shutdown ==
  /\ server.state = "running"
  /\ server' = [server EXCEPT !.state = "exit 0", !.interval = FALSE]
  /\ UNCHANGED << now, simulateTransactions, sdk, walletRequest, nonceResponse,
                  verifyResponse, verifyCall, splitCall,
                  storeVars, audit, pc, body, nonceDetails, transactionSignature,
                  errorMessage, response, histVars >>

\* what the listening server does for its clients: nonces are issued and one
\* POST /settle is handled
Serve ==
  \/ \E n \in NonceIds, a \in Amounts, k \in Keys, sp \in SplitSpecs : StoreNonce(n, a, k, sp)
  \/ \E b \in Bodies : Receive(1, b)
  \/ GetNonce(1)
  \/ Balance(1)
  \/ SendRaw(1)
  \/ Confirm(1)
  \/ Update(1)
  \/ StoreConfirmed(1)
  \/ StoreFailed(1)

NextStart ==
  \/ InitializeResolves
  \/ InitializeRejects
  \/ CleanupIntervalRun
  \/ Shutdown
  \/ server.state = "running" /\ Serve
  \/ server.state = "running" /\ Tick

StartSpec == InitStart /\ [][NextStart]_vars

\* setInterval calls its callback again and again while the process lives
FairStartSpec == StartSpec /\ WF_vars(CleanupIntervalRun)

\* ------------------------------------------------- the routes beside /settle
\* nonces are issued, verified and swept while the clock runs; no /settle
NextRoutes ==
  \/ \E n \in NonceIds, a \in Amounts, k \in Keys, sp \in SplitSpecs : StoreNonce(n, a, k, sp)
  \/ \E p \in PaymentRequests : VerifyRoute(p)
  \/ \E n \in NonceIds : GetNonceRoute(n)
  \/ CleanupInterval
  \/ CleanupRoute
  \/ Tick

RouteSpec == Init /\ [][NextRoutes]_vars

\* ------------------------------------------------- verifySignature alone
Messages == Payloads \cup {[nonce |-> "other"]}

\* signatures and keys as strings: not base58, or base58 for a right or a
\* wrong number of bytes
SignatureTexts ==
  {NotBase58} \cup {Text(l, v) : l \in {0, SignatureLength - 1, SignatureLength,
                                        SignatureLength + 1},
                                 v \in {SignatureBy(k, p) : k \in Keys, p \in Payloads}
                                       \cup {Forged}}
PublicKeyTexts ==
  {NotBase58} \cup {Text(l, k) : l \in {0, PublicKeyLength - 1, PublicKeyLength,
                                        PublicKeyLength + 1},
                                 k \in Keys}

InitSignature ==
  /\ InitSettle
  /\ InitRoutes
  /\ verifyCall \in [message : Messages, signature : SignatureTexts,
                     publicKey : PublicKeyTexts, outcome : {Null}]
  /\ splitCall = Null
  /\ sdk = Null
  /\ walletRequest = Null

\* the call is made
VerifySignatureCall ==
  /\ verifyCall.outcome = Null
  /\ verifyCall' = [verifyCall EXCEPT
       !.outcome = verifySignatureText(verifyCall.message, verifyCall.signature,
                                       verifyCall.publicKey)]
  /\ UNCHANGED << now, simulateTransactions, sdk, walletRequest, nonceResponse,
                  verifyResponse, splitCall, server,
                  storeVars, audit, pc, body, nonceDetails, transactionSignature,
                  errorMessage, response, histVars >>

NextSignature == VerifySignatureCall

SignatureSpec == InitSignature /\ [][NextSignature]_vars

\* ------------------------------------- the split validation of both revisions
\* the amount of which 40% is the default fee
RevisionAmount == (TANK_BANK_FEE_USDC * 10) \div 4

FeeAmounts == {TANK_BANK_FEE_USDC - 1, TANK_BANK_FEE_USDC, TANK_BANK_FEE_USDC + 1}

\* a processing-fee recipient or none, then a platform-fee recipient or none,
\* then a creator recipient or none
RevisionRecipients ==
  {processing \o platform \o creator :
     processing \in {<<>>} \cup {<<[description |-> DescProcessingFee, amount |-> f]>> :
                                   f \in FeeAmounts},
     platform \in {<<>>} \cup {<<[description |-> DescFee, amount |-> f]>> :
                                 f \in FeeAmounts},
     creator \in {<<>>, <<[description |-> DescCreator,
                           amount |-> RevisionAmount - TANK_BANK_FEE_USDC]>>}}

RevisionDetails ==
  {[amount |-> RevisionAmount,
    splitPaymentData |-> [enabled |-> TRUE, totalAmount |-> total, recipients |-> rs]] :
     total \in {RevisionAmount, RevisionAmount + 1}, rs \in RevisionRecipients}

Environments == {Unset, Digits(TANK_BANK_FEE_USDC + 1), NoDigits}

InitRevisions ==
  /\ InitSettle
  /\ InitRoutes
  /\ verifyCall = Null
  /\ sdk = Null
  /\ walletRequest = Null
  /\ splitCall \in [details : RevisionDetails, env : Environments,
                    fixedFee : {Null}, shares : {Null}]

\* the fixed-fee revision validates the spec
ValidateFixedFeeCall ==
  /\ splitCall.fixedFee = Null
  /\ splitCall' = [splitCall EXCEPT
       !.fixedFee = ValidateSplitFixedFee(splitCall.details, splitCall.env)]
  /\ UNCHANGED << now, simulateTransactions, sdk, walletRequest, nonceResponse,
                  verifyResponse, verifyCall, server,
                  storeVars, audit, pc, body, nonceDetails, transactionSignature,
                  errorMessage, response, histVars >>

\* the 60/40 revision validates the spec
ValidateSharesCall ==
  /\ splitCall.shares = Null
  /\ splitCall' = [splitCall EXCEPT !.shares = ValidateSplit(splitCall.details)]
  /\ UNCHANGED << now, simulateTransactions, sdk, walletRequest, nonceResponse,
                  verifyResponse, verifyCall, server,
                  storeVars, audit, pc, body, nonceDetails, transactionSignature,
                  errorMessage, response, histVars >>

NextRevisions == ValidateFixedFeeCall \/ ValidateSharesCall

RevisionSpec == InitRevisions /\ [][NextRevisions]_vars

\* ------------------------------------------------- the gaming SDK
\* TankBankGamingSDK (src/src/sdk/gaming-sdk.ts) runs in the player's browser.
\* startGame is an async method: each action below is one of its segments,
\* the awaited call returning followed by the code up to the next await.
\* Between two segments the page may call setWallet, endGame and loadGame,
\* and a wallet extension may drop its connection.
MaxGames == 2    \* number of startGame calls

WalletIds == {"phantom", "solflare"}
\* GameConfig.costToPlay, in lamports
costToPlay == 10

ErrPaymentFailed == Msg("Payment failed: ", <<>>)
\* what an awaited call of the wallet, the modal, the RPC node or fetch
\* rejects with, and the TypeError of reading a property of null or undefined
ErrRejected == Msg("rejected", <<>>)
TypeError == Msg("TypeError", <<>>)

\* no wallet provider, no public key, no transaction signature
NoWallet == "null"
NoKey == "null"
Undefined == "undefined"

\* a wallet provider before connect() and after the extension disconnects
Disconnected == [connected |-> FALSE, publicKey |-> NoKey]
\* a connected provider; one that resolves connect() without a key is what
\* startGame's second check is for
Connected(key) == [connected |-> TRUE, publicKey |-> key]

\* what fetch(facilitatorUrl + '/verify') may come back with: a network error,
\* a response that is not ok, an ok response without data (the facilitator's
\* own answers, {status: ...}, are of this kind), and an ok response whose
\* data is {success, transactionSignature?}; startGame never reads success
FacilitatorResponses ==
  { [fetched |-> FALSE, ok |-> FALSE, data |-> Null],
    [fetched |-> TRUE, ok |-> FALSE, data |-> Null],
    [fetched |-> TRUE, ok |-> TRUE, data |-> Null] }
  \cup { [fetched |-> TRUE, ok |-> TRUE,
          data |-> [success |-> success, transactionSignature |-> signature]] :
         success \in BOOLEAN, signature \in {Undefined, "sig1"} }

\* the SDK after its constructor, with the providers the page has
NewSdk(providers) ==
  [ wallet |-> NoWallet, currentSession |-> Null, providers |-> providers,
    pc |-> "idle", calls |-> 0, steps |-> <<>>, balanceCheck |-> Null,
    confirmed |-> FALSE, asked |-> NoWallet, paymentResponse |-> Null,
    error |-> NoError, loadGame |-> Null ]

InitSdk ==
  /\ InitSettle
  /\ InitRoutes
  /\ verifyCall = Null
  /\ splitCall = Null
  /\ walletRequest = Null
  /\ sdk \in {NewSdk(p) : p \in [WalletIds -> {Disconnected}]
                                \cup {[w \in WalletIds |-> Connected(w)]}}

getCurrentSession(s) == s.currentSession

\* this.currentSession?.isActive ?? false
isGameActive(s) ==
  IF s.currentSession = Null THEN FALSE ELSE s.currentSession.isActive

\* catch (error) { console.error(...); throw error }
Rejected(s, error) == [s EXCEPT !.pc = "rejected", !.error = error]

\* the call of an awaited operation: the position and the record of the call
Calls(s, step) == [s EXCEPT !.pc = step, !.steps = Append(@, step)]

\* this.wallet.publicKey of the wallet the SDK holds now
publicKey(s) == s.providers[s.wallet].publicKey

\* lines 115-120: the key check, then checkBalance up to its getBalance
AfterConnect(s) ==
  IF publicKey(s) = NoKey THEN Rejected(s, Msg("Wallet not connected", <<>>))
  ELSE Calls(s, "getBalance")

setWallet(w) ==
  /\ sdk # Null
  /\ sdk' = [sdk EXCEPT !.wallet = w]
  /\ UNCHANGED << facilitatorVars, walletRequest >>

\* the extension drops the connection of provider w
Disconnect(w) ==
  /\ sdk # Null
  /\ sdk.providers[w] # Disconnected
  /\ sdk' = [sdk EXCEPT !.providers[w] = Disconnected]
  /\ UNCHANGED << facilitatorVars, walletRequest >>

\* startGame up to its first await
StartGame ==
  /\ sdk # Null
  /\ sdk.pc \in {"idle", "rejected", "resolved"}
  /\ sdk.calls < MaxGames
  /\ LET s == [sdk EXCEPT !.calls = @ + 1, !.steps = <<>>, !.balanceCheck = Null,
                          !.confirmed = FALSE, !.asked = NoWallet,
                          !.paymentResponse = Null, !.error = NoError]
     IN  sdk' = IF s.wallet = NoWallet THEN Rejected(s, Msg("No wallet provider set", <<>>))
                ELSE IF ~s.providers[s.wallet].connected
                     THEN [Calls(s, "connect") EXCEPT !.asked = s.wallet]
                ELSE AfterConnect(s)
  /\ UNCHANGED << facilitatorVars, walletRequest >>

\* wallet.connect() settles: the provider that was asked is connected
ConnectReturns ==
  /\ sdk # Null
  /\ sdk.pc = "connect"
  /\ \E rejects \in BOOLEAN, withKey \in BOOLEAN :
       sdk' = IF rejects THEN Rejected(sdk, ErrRejected)
              ELSE AfterConnect(
                     [sdk EXCEPT !.providers[sdk.asked] =
                        Connected(IF withKey THEN sdk.asked ELSE NoKey)])
  /\ UNCHANGED << facilitatorVars, walletRequest >>

\* what checkBalance resolves with, lines 77-83
checkBalance(balance) ==
  [ hasBalance |-> balance >= costToPlay, currentBalance |-> balance,
    required |-> costToPlay ]

\* a balance check that lets every balance pass
BalanceReturns_NoCheck ==
  /\ sdk # Null
  /\ sdk.pc = "getBalance"
  /\ \E rejects \in BOOLEAN, balance \in Balances :
       LET s == [sdk EXCEPT !.balanceCheck = checkBalance(balance)]
       IN  sdk' = IF rejects THEN Rejected(sdk, ErrRejected)
                  ELSE Calls(s, "confirm")
  /\ UNCHANGED << facilitatorVars, walletRequest >>

\* connection.getBalance settles; lines 121-128
BalanceReturns ==
  /\ sdk # Null
  /\ sdk.pc = "getBalance"
  /\ \E rejects \in BOOLEAN, balance \in Balances :
       LET s == [sdk EXCEPT !.balanceCheck = checkBalance(balance)]
       IN  sdk' = IF rejects THEN Rejected(sdk, ErrRejected)
                  ELSE IF ~s.balanceCheck.hasBalance
                       THEN Rejected(s, Msg("Insufficient balance. Required:  SOL, Current:  SOL",
                                            << costToPlay, balance >>))
                  ELSE Calls(s, "confirm")
  /\ UNCHANGED << facilitatorVars, walletRequest >>

\* the modal or confirm() answers; lines 129-148
ConfirmReturns ==
  /\ sdk # Null
  /\ sdk.pc = "confirm"
  /\ \E answer \in {"yes", "no", "rejects"} :
       sdk' = IF answer = "rejects" THEN Rejected(sdk, ErrRejected)
              ELSE IF answer = "no"
                   THEN Rejected(sdk, Msg("User cancelled game start", <<>>))
              ELSE [Calls(sdk, "signMessage") EXCEPT !.confirmed = TRUE,
                                                      !.asked = sdk.wallet]
  /\ UNCHANGED << facilitatorVars, walletRequest >>

\* wallet.signMessage settles; lines 150-157 and submitPayment up to fetch
SignReturns ==
  /\ sdk # Null
  /\ sdk.pc = "signMessage"
  /\ \E rejects \in BOOLEAN :
       sdk' = IF rejects THEN Rejected(sdk, ErrRejected)
              ELSE IF publicKey(sdk) = NoKey THEN Rejected(sdk, TypeError)
              ELSE Calls(sdk, "submitPayment")
  /\ UNCHANGED << facilitatorVars, walletRequest >>

\* the session of lines 160-168
NewSession(s, data) ==
  [ sessionId |-> s.calls, playerPublicKey |-> publicKey(s),
    transactionSignature |-> data.transactionSignature, isActive |-> TRUE ]

\* a submission that stores the session whatever came back
SubmitReturns_AlwaysStores ==
  /\ sdk # Null
  /\ sdk.pc = "submitPayment"
  /\ \E resp \in FacilitatorResponses :
       sdk' = [sdk EXCEPT !.pc = "resolved", !.paymentResponse = resp,
                 !.currentSession =
                   [ sessionId |-> sdk.calls, playerPublicKey |-> sdk.wallet,
                     transactionSignature |-> Undefined, isActive |-> TRUE ]]
  /\ UNCHANGED << facilitatorVars, walletRequest >>

\* fetch settles; submitPayment lines 191-197, then startGame lines 159-171
SubmitReturns ==
  /\ sdk # Null
  /\ sdk.pc = "submitPayment"
  /\ \E resp \in FacilitatorResponses :
       LET s == [sdk EXCEPT !.paymentResponse = resp]
       IN  sdk' = IF ~resp.fetched THEN Rejected(s, ErrRejected)
                  ELSE IF ~resp.ok THEN Rejected(s, ErrPaymentFailed)
                  ELSE IF publicKey(s) = NoKey \/ resp.data = Null
                       THEN Rejected(s, TypeError)
                  ELSE [s EXCEPT !.pc = "resolved",
                                 !.currentSession = NewSession(s, resp.data)]
  /\ UNCHANGED << facilitatorVars, walletRequest >>

\* isActive = false on the session object, then the SDK lets go of it
endGame ==
  /\ sdk # Null
  /\ sdk' = IF sdk.currentSession # Null
            THEN [sdk EXCEPT !.currentSession = Null]
            ELSE sdk
  /\ UNCHANGED << facilitatorVars, walletRequest >>

\* loadGame: it throws without an active session, else it mounts the iframe
\* of the session it holds
loadGame ==
  /\ sdk # Null
  /\ sdk' = [sdk EXCEPT !.loadGame =
               [ held |-> sdk.currentSession,
                 outcome |-> IF ~isGameActive(sdk) THEN Thrown
                             ELSE Returned(sdk.currentSession.sessionId) ]]
  /\ UNCHANGED << facilitatorVars, walletRequest >>

NextSdk ==
  \/ \E w \in WalletIds : setWallet(w)
  \/ \E w \in WalletIds : Disconnect(w)
  \/ StartGame
  \/ ConnectReturns
  \/ BalanceReturns
  \/ ConfirmReturns
  \/ SignReturns
  \/ SubmitReturns
  \/ endGame
  \/ loadGame

SdkSpec == InitSdk /\ [][NextSdk]_vars

\* ------------------------------------------------- the merchant wallet
\* The resource server (src/src/server/index.ts) runs merchantWalletMiddleware
\* on every request before its routes.  The middleware has two revisions:
\* src/src/lib/merchant-wallet-resolver.ts falls back to the environment and
\* to a default, src/unnamed/part_003 insists on the header.
MaxText == 3     \* longest header or environment value, in characters

Space == " "

\* a string of the request or the environment is undefined or a text, and a
\* text is the sequence of its characters
Absent == [defined |-> FALSE, text |-> << >>]
Str(text) == [defined |-> TRUE, text |-> text]

Strings(alphabet, len) ==
  {Absent} \cup {Str(t) : t \in UNION { [1..n -> alphabet] : n \in 0..len }}

\* 'MERCHANT_WALLET_NOT_CONFIGURED' and 'Not configured'
NotConfiguredWallet == Str(<< "MERCHANT_WALLET_NOT_CONFIGURED" >>)
NotConfigured == Str(<< "Not configured" >>)

\* String.prototype.trim
RECURSIVE TrimStart(_)
TrimStart(text) ==
  IF text = << >> THEN text
  ELSE IF Head(text) = Space THEN TrimStart(Tail(text))
  ELSE text

RECURSIVE TrimEnd(_)
TrimEnd(text) ==
  IF text = << >> THEN text
  ELSE IF text[Len(text)] = Space THEN TrimEnd(SubSeq(text, 1, Len(text) - 1))
  ELSE text

trim(text) == TrimEnd(TrimStart(text))

\* a string in a condition: undefined and '' are false
Truthy(string) == string.defined /\ string.text # << >>

\* a || b on strings
OrElse(a, b) == IF Truthy(a) THEN a ELSE b

\* headerWallet && headerWallet.trim()
NonBlank(string) == Truthy(string) /\ trim(string.text) # << >>

MerchantWalletInfo(address, source, fallbackUsed) ==
  [address |-> address, source |-> source, fallbackUsed |-> fallbackUsed]

\* a resolver that asks the environment before the header
resolveMerchantWallet_EnvironmentFirst(req, fallbackAddress) ==
  IF NonBlank(req.env.MERCHANT_SOLANA_ADDRESS)
  THEN MerchantWalletInfo(Str(trim(req.env.MERCHANT_SOLANA_ADDRESS.text)),
                          "environment", FALSE)
  ELSE IF NonBlank(req.header)
  THEN MerchantWalletInfo(Str(trim(req.header.text)), "header", FALSE)
  ELSE MerchantWalletInfo(
         OrElse(fallbackAddress,
                OrElse(req.env.FACILITATOR_PUBLIC_KEY, NotConfiguredWallet)),
         "default", TRUE)

\* lib/merchant-wallet-resolver.ts: header, then environment, then default
resolveMerchantWallet(req, fallbackAddress) ==
  IF NonBlank(req.header)
  THEN MerchantWalletInfo(Str(trim(req.header.text)), "header", FALSE)
  ELSE IF NonBlank(req.env.MERCHANT_SOLANA_ADDRESS)
  THEN MerchantWalletInfo(Str(trim(req.env.MERCHANT_SOLANA_ADDRESS.text)),
                          "environment", FALSE)
  ELSE MerchantWalletInfo(
         OrElse(fallbackAddress,
                OrElse(req.env.FACILITATOR_PUBLIC_KEY, NotConfiguredWallet)),
         "default", TRUE)

\* part_003: the header or an Error
resolveMerchantWalletRequired(req) ==
  IF NonBlank(req.header)
  THEN Returned(MerchantWalletInfo(Str(trim(req.header.text)), "header", FALSE))
  ELSE Thrown

HeaderRequired400 ==
  [status |-> 400, error |-> Msg("X-Developer-Wallet header required", <<>>)]

NewRequest(header, merchant, key, fallbackAddress) ==
  [ header |-> header,
    env |-> [MERCHANT_SOLANA_ADDRESS |-> merchant, FACILITATOR_PUBLIC_KEY |-> key],
    fallbackAddress |-> fallbackAddress,
    merchantWallet |-> Null, revision |-> "none", next |-> 0, res |-> Null ]

InitWallet ==
  /\ InitSettle
  /\ InitRoutes
  /\ verifyCall = Null
  /\ splitCall = Null
  /\ sdk = Null
  \* what a request carries and what the process was started with; the
  \* server passes config.facilitatorPublicKey as the fallback address
  /\ walletRequest \in
       { NewRequest(h, m, k, f) : h \in Strings({Space, "h"}, MaxText),
                                  m \in Strings({Space, "e"}, MaxText),
                                  k \in {Absent, Str(<< "k" >>)},
                                  f \in Strings({Space, "f"}, 1) }

\* the middleware of lib/merchant-wallet-resolver.ts, as a whole
merchantWalletMiddleware ==
  /\ walletRequest # Null
  /\ walletRequest.revision = "none"
  /\ walletRequest' =
       [walletRequest EXCEPT
          !.revision = "fallback",
          !.merchantWallet =
             resolveMerchantWallet(walletRequest, walletRequest.fallbackAddress),
          !.next = @ + 1]
  /\ UNCHANGED << facilitatorVars, sdk >>

\* a header-required middleware that goes on after it has answered 400
merchantWalletMiddlewareRequired_NoReturn ==
  /\ walletRequest # Null
  /\ walletRequest.revision = "none"
  /\ LET resolved == resolveMerchantWalletRequired(walletRequest)
     IN  walletRequest' =
           IF resolved.threw
           THEN [walletRequest EXCEPT !.revision = "required",
                                      !.res = HeaderRequired400,
                                      !.next = @ + 1]
           ELSE [walletRequest EXCEPT !.revision = "required",
                                      !.merchantWallet = resolved.value,
                                      !.next = @ + 1]
  /\ UNCHANGED << facilitatorVars, sdk >>

\* the middleware of part_003, as a whole
merchantWalletMiddlewareRequired ==
  /\ walletRequest # Null
  /\ walletRequest.revision = "none"
  /\ LET resolved == resolveMerchantWalletRequired(walletRequest)
     IN  walletRequest' =
           IF resolved.threw
           THEN [walletRequest EXCEPT !.revision = "required",
                                      !.res = HeaderRequired400]
           ELSE [walletRequest EXCEPT !.revision = "required",
                                      !.merchantWallet = resolved.value,
                                      !.next = @ + 1]
  /\ UNCHANGED << facilitatorVars, sdk >>

\* app.get('/merchant-wallet'): it runs when the middleware has called next()
\* and nothing has answered yet
GetMerchantWallet ==
  /\ walletRequest # Null
  /\ walletRequest.next > 0
  /\ walletRequest.res = Null
  /\ LET walletInfo == walletRequest.merchantWallet
     IN  walletRequest' =
           [walletRequest EXCEPT !.res =
              [ status |-> 200,
                wallet |->
                  [ address |-> IF walletInfo # Null /\ Truthy(walletInfo.address)
                                THEN walletInfo.address ELSE NotConfigured,
                    source |-> IF walletInfo # Null THEN walletInfo.source
                               ELSE "unknown",
                    fallbackUsed |-> (walletInfo # Null /\ walletInfo.fallbackUsed)
                                     \/ TRUE ] ]]
  /\ UNCHANGED << facilitatorVars, sdk >>

NextWallet ==
  \/ merchantWalletMiddleware
  \/ merchantWalletMiddlewareRequired
  \/ GetMerchantWallet

WalletSpec == InitWallet /\ [][NextWallet]_vars

\* =================================================================== claims
IsSettled(r) == pc[r] = "done" /\ response[r].status = "settled"

IsError(r, msg) ==
  pc[r] = "done" /\ response[r].status = "error" /\ response[r].error = msg

\* the step in which request r is answered
Answers(r) == pc[r] # "done" /\ pc'[r] = "done"

\* the step in which getNonceDetails returns to request r (it did not reject)
LookupReturns(r) == pc[r] = "getNonceDetails" /\ pc'[r] \notin {"getNonceDetails", "catch"}

\* the record of nonce n is in the store and its expiry has passed
ExpiredRecord(n) == nonces[n] # Null /\ now > nonces[n].expiry

\* C1: for one nonce, at most one /settle request is ever answered 'settled',
\* however the requests for it interleave.
C1_AtMostOneSettled ==
  \A n \in NonceIds : Cardinality({r \in Req : named[r] = n /\ IsSettled(r)}) <= 1

\* C2: of the /settle requests in flight on the same nonce at the same time, no
\* two have both handed a transfer to the ledger: the nonce is claimed before
\* submission, so only the request that wins the claim submits.
C2_OnlyWinnerSubmits ==
  \A r1 \in Req, r2 \in Req :
    (/\ r1 # r2
     /\ named[r1] # NoNonce
     /\ named[r1] = named[r2]
     /\ pc[r1] # "done"
     /\ pc[r2] # "done")
    => ~(r1 \in sent /\ r2 \in sent)

\* C3: once a /settle attempt whose transfer had reached the ledger was answered
\* with a submission failure (a confirmation timeout), no /settle request that
\* arrives later for the same nonce hands another transfer to the ledger.
C3_NoResubmission ==
  \A r \in Req : \A q \in failedBefore[r] :
    (named[q] = named[r] /\ q \in sent /\ IsError(q, ErrSubmit)) => r \notin sent

\* C4: a record's transactionSignature is written at most once: once it is
\* non-null, no step changes it, sets it back to null or removes the record.
C4_SignatureWrittenOnce ==
  [][\A n \in NonceIds :
       (nonces[n] # Null /\ nonces[n].transactionSignature # Null)
       => (/\ nonces'[n] # Null
           /\ nonces'[n].transactionSignature = nonces[n].transactionSignature)]_vars

\* C4 witness: a second updateTransactionSignature met a signature already set
C4_Witness ==
  \E r \in Req :
    /\ updateResult[r] = "AlreadySettled"
    /\ nonces[named[r]].transactionSignature # Null

\* C5: /settle is never answered 'settled' for a payment request whose signature
\* does not verify over its payload under the claimed client public key.
C5_SettleVerifiesSignature ==
  \A r \in Req :
    IsSettled(r) =>
      verifySignature(settledRequest[r].payload, settledRequest[r].signature,
                      settledRequest[r].clientPublicKey)

\* C6: a /settle request whose lookup returns a record whose expiry
\* has passed is answered with the Expired error.
C6_ExpiredAnswersExpired ==
  [][\A r \in Req :
       (LookupReturns(r) /\ ExpiredRecord(named[r]))
       => response'[r] = Error(ErrExpired)]_vars

\* C7: updateTransactionSignature is never called at a time later than the
\* expiry of the record the request read.
C7_NoUpdateAfterExpiry == updatedAfterExpiry = {}

\* C8: the sweep removes no settled record, so every nonce that a /settle
\* request reported 'settled' is still in the store.
C8_SettledStaysRetrievable ==
  \A r \in Req : IsSettled(r) => nonces[named[r]] # Null

\* C9: every /settle request that named a nonce and was answered has a
\* TransactionRecord of its attempt in the audit log.
C9_EveryAnswerAudited ==
  \A r \in Req :
    (pc[r] = "done" /\ named[r] # NoNonce) => \E rec \in audit : rec.attempt = r

\* the step in which request r, which named a nonce, is answered with an
\* error other than already-settled
AnswersError(r) ==
  /\ Answers(r)
  /\ named'[r] # NoNonce
  /\ response'[r].status = "error"
  /\ response'[r].error # ErrAlreadySettled

\* C10: when /settle answers an error other than already-settled,
\* the record of the nonce holds no transactionSignature.
C10_ErrorLeavesSignatureNull ==
  [][\A r \in Req :
       AnswersError(r)
       => (\/ nonces'[named'[r]] = Null
           \/ nonces'[named'[r]].transactionSignature = Null)]_vars

\* request r's TransactionRecord reached the audit log
Audited(r) == \E rec \in audit : rec.attempt = r

\* C11: whenever /settle has answered 'settled' with signature s for a nonce
\* (and the TransactionRecord of that request was persisted), the record of the
\* nonce holds transactionSignature = s and the audit log holds a 'confirmed'
\* TransactionRecord for (nonce, s), whatever other requests ran concurrently.
C11_SettledIsRecorded ==
  \A r \in Req :
    (IsSettled(r) /\ Audited(r)) =>
      /\ nonces[named[r]] # Null
      /\ nonces[named[r]].transactionSignature = response[r].transactionSignature
      /\ \E rec \in audit :
           /\ rec.status = "confirmed"
           /\ rec.nonce = named[r]
           /\ rec.transactionSignature = response[r].transactionSignature

C13_StorageErrorIs500 ==
  \A r \in Req :
    (pc[r] = "done" /\ response[r].status = "error") =>
      response[r].http = IF response[r].error = ErrStorage THEN 500 ELSE 200

\* ---- split validation (C14..C17, specification SplitSpec)
RECURSIVE SumAmounts(_)
SumAmounts(rs) == IF rs = <<>> THEN 0 ELSE Head(rs).amount + SumAmounts(Tail(rs))

\* floor(t * 0.4) and floor(t * 0.6), by the definition of floor
Floor40(t) == CHOOSE k \in 0..t : 10 * k <= 4 * t /\ 4 * t < 10 * (k + 1)
Floor60(t) == CHOOSE k \in 0..t : 10 * k <= 6 * t /\ 6 * t < 10 * (k + 1)

\* the first recipient of record d with the platform-fee description, and the
\* first one described as creator (Null: none)
FeeOf(d) == Find(d.splitPaymentData.recipients, {DescFee})
CreatorOf(d) == Find(d.splitPaymentData.recipients, CreatorDescriptions)

\* the four checks of the split validation
TotalMatches(d) == d.splitPaymentData.totalAmount = d.amount
FeeExists(d) == FeeOf(d) # Null
FeeInTolerance(d) == Abs(FeeOf(d).amount - Floor40(d.amount)) <= 1
PrimaryInTolerance(d) ==
  CreatorOf(d) = Null \/ Abs(CreatorOf(d).amount - Floor60(d.amount)) <= 1

\* the text of the reason of the first failing check, "" when none fails
FirstFailure(d) ==
  IF ~TotalMatches(d) THEN ErrAmountMismatch(0, 0).text
  ELSE IF ~FeeExists(d) THEN ErrFeeRequired.text
  ELSE IF ~FeeInTolerance(d) THEN ErrFeeShare(0, 0).text
  ELSE IF ~PrimaryInTolerance(d) THEN ErrCreatorShare(0, 0).text
  ELSE ""

\* the step in which the lookup of request r returns a record with an enabled
\* split spec that passed the guards before the split validation
ReachesValidation(r) ==
  /\ LookupReturns(r)
  /\ nonces[named[r]] # Null
  /\ nonces[named[r]].transactionSignature = Null
  /\ ~(now > nonces[named[r]].expiry)
  /\ nonces[named[r]].splitPaymentData.enabled

\* request r is rejected in this step with the reason whose text is text
RejectedWith(r, text) ==
  /\ pc'[r] = "done"
  /\ response'[r].status = "error"
  /\ response'[r].error.text = text

\* C14: no nonce with an enabled split spec is settled unless the amounts of
\* its recipients sum to the spec's totalAmount and totalAmount equals the
\* amount of the nonce.
C14_SettledSplitSumsToTotal ==
  \A r \in Req :
    (/\ IsSettled(r)
     /\ nonces[named[r]] # Null
     /\ nonces[named[r]].splitPaymentData.enabled)
    => (/\ SumAmounts(nonces[named[r]].splitPaymentData.recipients)
             = nonces[named[r]].splitPaymentData.totalAmount
        /\ TotalMatches(nonces[named[r]]))

\* C15: for every total in 1..MaxTotal and every fee amount in 0..MaxTotal, the split
\* validation of a spec with a platform-fee recipient rejects with the
\* fee-mismatch reason only when the fee amount differs from floor(total * 0.4)
\* by more than 1, it never accepts such a spec, and it gives the fee-mismatch
\* reason for it whenever the spec got past the total check.
C15_FeeCheckExact ==
  [][\A r \in Req :
       (ReachesValidation(r) /\ FeeExists(nonces[named[r]]))
       => LET d == nonces[named[r]]
              off == Abs(FeeOf(d).amount - Floor40(d.amount)) > 1
              feeMismatch == RejectedWith(r, ErrFeeShare(0, 0).text)
          IN  /\ feeMismatch => off
              /\ off => (pc'[r] = "done" /\ response'[r].status = "error")
              /\ (off /\ TotalMatches(d)) => feeMismatch]_vars

\* C15 witness: a fee amount two units off the share was rejected with the
\* fee-mismatch reason, which carries the expected share and the amount
C15_Witness ==
  \E r \in Req :
    /\ pc[r] = "done"
    /\ response[r].status = "error"
    /\ response[r].error.text = ErrFeeShare(0, 0).text
    /\ response[r].error.args[1] = Floor40(nonces[named[r]].amount)
    /\ Abs(response[r].error.args[2] - response[r].error.args[1]) = 2

\* C16: the split validation reports the first failing check in the order
\* total, platform-fee recipient, fee amount, primary amount, each with its own
\* reason, and the request ends in that step: nothing is submitted to the
\* ledger and the nonce record is not written.
C16_FirstFailureReported ==
  [][\A r \in Req :
       (ReachesValidation(r) /\ FirstFailure(nonces[named[r]]) # "")
       => (/\ RejectedWith(r, FirstFailure(nonces[named[r]]))
           /\ Cardinality({ErrAmountMismatch(0, 0).text, ErrFeeRequired.text,
                           ErrFeeShare(0, 0).text, ErrCreatorShare(0, 0).text}) = 4
           /\ nonces' = nonces
           /\ r \notin sent'
           /\ updateResult'[r] = "none")]_vars

\* C16 witness: fee amount and creator amount were both out of tolerance and
\* the request was rejected with the fee-mismatch reason
C16_Witness ==
  \E r \in Req :
    /\ pc[r] = "done"
    /\ response[r].status = "error"
    /\ response[r].error.text = ErrFeeShare(0, 0).text
    /\ ~PrimaryInTolerance(nonces[named[r]])
    /\ r \notin sent
    /\ updateResult[r] = "none"

\* C17: no nonce with an enabled split spec is settled unless the amount of
\* every recipient other than the platform fee (the primary recipient) is
\* within 1 of floor(total * 0.6).
C17_PrimaryShareEnforced ==
  \A r \in Req :
    (/\ IsSettled(r)
     /\ nonces[named[r]] # Null
     /\ nonces[named[r]].splitPaymentData.enabled)
    => LET d == nonces[named[r]]
           rs == d.splitPaymentData.recipients
       IN  \A i \in 1..Len(rs) :
             rs[i].description # DescFee
             => Abs(rs[i].amount - Floor60(d.amount)) <= 1

\* ---- the two settlement modes (C18..C20, specification Spec)
\* C18: a request that read a payer balance lower than the amount of the nonce
\* has handed no transfer to the ledger and is answered with the
\* insufficient-funds error carrying the required and the available amount.
C18_NoSubmissionWithoutFunds ==
  \A r \in Req :
    (/\ balanceCheck[r] # Null
     /\ balanceCheck[r].clientBalance < balanceCheck[r].requiredAmount)
    => (/\ r \notin sent
        /\ IsError(r, ErrInsufficient(balanceCheck[r].requiredAmount,
                                      balanceCheck[r].clientBalance)))

\* C18 witness: in real mode a request read a balance below the amount
C18_Witness ==
  \E r \in Req :
    /\ ~simulateTransactions
    /\ balanceCheck[r] # Null
    /\ balanceCheck[r].clientBalance < balanceCheck[r].requiredAmount
    /\ pc[r] = "done"

\* the step in which the lookup of request r returns a record that passes
\* every guard
PassesGuards(r) ==
  /\ LookupReturns(r)
  /\ nonces[named[r]] # Null
  /\ nonces[named[r]].transactionSignature = Null
  /\ ~(now > nonces[named[r]].expiry)
  /\ (nonces[named[r]].splitPaymentData.enabled => FirstFailure(nonces[named[r]]) = "")

C21_FailedIsTerminal ==
  \A r \in Req :
    IsSettled(r) => \A q \in failedBefore[r] : named[q] # named[r]

\* C22: a /verify on a nonce whose expiry has passed is answered Expired,
\* whether the signature of the request is valid or not, and leaves the nonce
\* records as they are.
C22_VerifyExpired ==
  [][\A p \in PaymentRequests :
       (/\ verifyResponse' # verifyResponse
        /\ verifyResponse'.request = p
        /\ ExpiredRecord(p.payload.nonce))
       => (/\ verifyResponse'.answer = Error(Expired)
           /\ nonces' = nonces)]_vars

\* C22 witness: Expired was the answer to a request whose signature does not
\* verify, the record still being in the store
C22_Witness ==
  /\ verifyResponse # Null
  /\ verifyResponse.answer = Error(Expired)
  /\ ~verifySignature(verifyResponse.request.payload, verifyResponse.request.signature,
                      verifyResponse.request.clientPublicKey)
  /\ ExpiredRecord(verifyResponse.request.payload.nonce)

\* the arguments of the call decode to a signature and a key of the sizes the
\* verify primitive takes
WellFormedCall ==
  /\ verifyCall.signature.base58
  /\ verifyCall.publicKey.base58
  /\ verifyCall.signature.len = SignatureLength
  /\ verifyCall.publicKey.len = PublicKeyLength

\* C23: verifySignature never throws: every call returns a boolean, and it
\* returns false whenever a base58 decoding fails or the verify primitive
\* fails on a signature or key of the wrong length.
C23_VerifySignatureTotal ==
  (verifyCall # Null /\ verifyCall.outcome # Null)
  => (/\ ~verifyCall.outcome.threw
      /\ verifyCall.outcome.value \in BOOLEAN
      /\ ~WellFormedCall => verifyCall.outcome.value = FALSE)

\* C23 witness: a call whose key is not base58 and whose signature has one
\* byte too many returned false
C23_Witness ==
  /\ verifyCall # Null
  /\ verifyCall.outcome = Returned(FALSE)
  /\ ~verifyCall.publicKey.base58
  /\ verifyCall.signature.base58
  /\ verifyCall.signature.len = SignatureLength + 1

\* request r, in real mode, carries a payment request without signedTransaction
Unsigned(r) ==
  /\ ~simulateTransactions
  /\ body[r] # Null
  /\ paymentReq(r).signedTransaction = Null

\* C24: in real mode a /settle request that carries no signedTransaction is
\* answered with an error, a 'failed' TransactionRecord holding that error is
\* in the log, nothing was submitted and the nonce records are as they were.
C24_UnsignedIsRecordedFailed ==
  [][\A r \in Req :
       (Answers(r) /\ Unsigned(r))
       => (/\ response'[r].status = "error"
           /\ \E rec \in audit' :
                /\ rec.attempt = r
                /\ rec.status = "failed"
                /\ rec.errorMessage = response'[r].error
           /\ r \notin sent'
           /\ nonces' = nonces)]_vars

\* the first recipient of the spec put to both revisions that is described as
\* the processing fee (Null: none)
ProcessingFeeOf(d) == Find(d.splitPaymentData.recipients, {DescProcessingFee})

\* both revisions have judged the spec
BothJudged == splitCall # Null /\ splitCall.fixedFee # Null /\ splitCall.shares # Null

\* C25: the fixed-fee revision accepts an enabled split spec only if its
\* recipient described as 'Tank Bank processing fee' has exactly the configured
\* fee (12500 when none is configured), and a spec it accepts is judged
\* differently, that is rejected, by the 60/40 revision.
C25_AcceptedIsJudgedDifferently ==
  BothJudged =>
    LET d == splitCall.details
        fee == ProcessingFeeOf(d)
    IN  /\ splitCall.fixedFee = Valid
           => (/\ fee # Null
               /\ ~expectedTankBankFee(splitCall.env).nan
               /\ fee.amount = expectedTankBankFee(splitCall.env).value
               /\ ~splitCall.env.set => fee.amount = 12500)
        /\ splitCall.fixedFee = Valid => splitCall.shares # Valid

\* C25 amended: the fixed-fee revision accepts an enabled split spec only if
\* its recipient described as 'Tank Bank processing fee' has exactly the
\* configured fee (12500 when none is configured), one unit off being
\* rejected; a spec it accepts is rejected by the 60/40 revision unless that
\* spec also has a recipient described as the platform fee, and a spec whose
\* platform fee is one unit off its share is accepted by the 60/40 revision:
\* the two revisions do not accept the same specs.
C25_FixedFeeExact ==
  BothJudged =>
    LET d == splitCall.details
        fee == ProcessingFeeOf(d)
    IN  /\ splitCall.fixedFee = Valid
           => (/\ fee # Null
               /\ ~expectedTankBankFee(splitCall.env).nan
               /\ fee.amount = expectedTankBankFee(splitCall.env).value
               /\ ~splitCall.env.set => fee.amount = 12500)
        /\ (splitCall.fixedFee = Valid /\ FeeOf(d) = Null)
           => splitCall.shares = ErrFeeRequired
        /\ (/\ TotalMatches(d)
            /\ FeeOf(d) # Null
            /\ Abs(FeeOf(d).amount - Floor40(d.amount)) = 1
            /\ CreatorOf(d) # Null)
           => splitCall.shares = Valid

\* C25 witness: a spec whose processing fee is exactly 12500 was accepted by
\* the fixed-fee revision and rejected by the 60/40 revision
C25_Witness ==
  /\ BothJudged
  /\ ~splitCall.env.set
  /\ splitCall.fixedFee = Valid
  /\ ProcessingFeeOf(splitCall.details).amount = 12500
  /\ splitCall.shares # Valid

\* C26: a request whose payer balance could not be read is not answered
\* 'Insufficient SOL balance' with available 0.
C26_QueryFailureNotInsufficient ==
  \A r \in Req :
    (balanceCheck[r] # Null /\ balanceCheck[r].queryFailed)
    => ~IsError(r, ErrInsufficient(balanceCheck[r].requiredAmount, 0))

\* C27: no /settle request whose clientPublicKey differs from the one stored
\* in the record of its nonce is answered 'settled', and the balance read to
\* gate a submission is that of the stored client.
C27_SettledOnlyForIssuedClient ==
  \A r \in Req :
    /\ (IsSettled(r) /\ nonces[named[r]] # Null)
       => settledRequest[r].clientPublicKey = nonces[named[r]].clientPublicKey
    /\ (balanceCheck[r] # Null /\ nonces[named[r]] # Null)
       => balanceCheck[r].account = nonces[named[r]].clientPublicKey

\* the step changes nothing but what belongs to the request it answers: no
\* NonceRecord, no TransactionRecord, no ledger call
OnlyAnswers ==
  /\ nonces' = nonces
  /\ issued' = issued
  /\ audit' = audit
  /\ sent' = sent
  /\ confirmed' = confirmed
  /\ balanceCheck' = balanceCheck
  /\ updateResult' = updateResult

C29_CleanupSurvivesFailure ==
  /\ [](server.interval => server.state # "starting")
  /\ [](server.lastCleanup # "none" => server.state # "starting")
  /\ [](server.state = "running" => ENABLED CleanupIntervalRun)
  /\ [](server.lastCleanup = "failed" => server.state \in {"running", "exit 0"})
  /\ []((server.state = "running" /\ pc[1] = "idle")
        => \A b \in Bodies : ENABLED Receive(1, b))
  /\ \A parity \in {0, 1} :
       (server.lastCleanup = "failed" /\ server.runs = parity)
       ~> (server.runs # parity \/ server.state = "exit 0")

\* C29 witness: a cleanup run succeeded after one that threw, while the
\* /settle request was awaiting its ledger confirmation
C29_Witness ==
  /\ server.state = "running"
  /\ server.caught
  /\ server.lastCleanup = "ok"
  /\ pc[1] = "confirmTransaction"

\* C30: GET /nonce/:nonce answers 500 with the error when the lookup throws,
\* and otherwise 404 'Nonce not found' exactly when the store has no record of
\* the nonce and 200 with the record when it has one; it changes neither the
\* store nor the audit log.
C30_GetNonceReadOnlyTotal ==
  [][\A n \in NonceIds :
       (nonceResponse' # nonceResponse /\ nonceResponse'.nonce = n)
       => LET answer == nonceResponse'.answer
          IN  /\ nonces' = nonces
              /\ issued' = issued
              /\ audit' = audit
              /\ answer.http \in {200, 404, 500}
              /\ nonceResponse'.threw <=> answer = NonceError500
              /\ ~nonceResponse'.threw
                 => (/\ answer = NonceNotFound404 <=> nonces[n] = Null
                     /\ answer.http = 200 <=> nonces[n] # Null
                     /\ answer.http = 200 => answer.data = nonces[n])]_vars

\* C30 witness: the last GET /nonce/:nonce found the record of its nonce and
\* answered 200 with it
C30_Witness ==
  /\ nonceResponse # Null
  /\ nonceResponse.answer.http = 200
  /\ nonces[nonceResponse.nonce] # Null
  /\ nonceResponse.answer.data = nonces[nonceResponse.nonce]

\* ---- the gaming SDK (C31, C32, specification SdkSpec)
\* the order the claim gives the steps of startGame
StepOrder == << "connect", "getBalance", "confirm", "signMessage", "submitPayment" >>

Position(step) == CHOOSE i \in 1..Len(StepOrder) : StepOrder[i] = step

InOrder(steps) ==
  \A i, j \in 1..Len(steps) : i < j => Position(steps[i]) < Position(steps[j])

\* the running (or last) startGame call has made this call
Asked(step) == \E i \in 1..Len(sdk.steps) : sdk.steps[i] = step

BalancePassed ==
  /\ Asked("getBalance")
  /\ sdk.balanceCheck # Null
  /\ sdk.balanceCheck.currentBalance >= costToPlay

\* C31: startGame makes its calls in the order connect, balance, confirmation,
\* signature, submission; the wallet is asked to sign, and a payment is
\* submitted, only in a call whose balance check found at least costToPlay
\* and whose confirmation was answered yes, and a payment is submitted only
\* after the signature was asked for.
C31_StartGameOrder ==
  /\ InOrder(sdk.steps)
  /\ Asked("signMessage") \/ Asked("submitPayment") =>
       BalancePassed /\ Asked("confirm") /\ sdk.confirmed
  /\ Asked("submitPayment") => Asked("signMessage")

\* a call that connected, passed every step and resolved
C31_Witness ==
  /\ sdk.pc = "resolved"
  /\ sdk.steps = StepOrder
  /\ BalancePassed
  /\ sdk.confirmed

\* the step in which a startGame call fails: its catch block rethrows
StartGameFails ==
  sdk'.pc = "rejected" /\ (sdk.pc # "rejected" \/ sdk'.calls # sdk.calls)

\* the step in which submitPayment resolves and startGame goes on to its end
SubmissionSucceeds ==
  /\ sdk.pc = "submitPayment"
  /\ sdk'.pc = "resolved"
  /\ sdk'.paymentResponse.fetched
  /\ sdk'.paymentResponse.ok

\* the last loadGame was called without an active session
LoadedWithoutSession ==
  /\ sdk.loadGame # Null
  /\ sdk.loadGame.held = Null \/ ~sdk.loadGame.held.isActive

\* C32: the SDK comes to hold a session only in the step in which a payment
\* submission succeeded; a startGame call that fails, at whatever step, leaves
\* currentSession as it was; isGameActive() is true exactly when
\* getCurrentSession() is not null; and a loadGame called while no session is
\* active has thrown.
C32_SessionOnlyAfterPayment ==
  /\ [](isGameActive(sdk) <=> getCurrentSession(sdk) # Null)
  /\ [](LoadedWithoutSession => sdk.loadGame.outcome = Thrown)
  /\ [][ /\ StartGameFails => sdk'.currentSession = sdk.currentSession
         /\ sdk'.currentSession # sdk.currentSession /\ sdk'.currentSession # Null
              => SubmissionSucceeds ]_vars

\* the second startGame failed at the facilitator while the session of the
\* first is held, and loadGame has thrown once the game had been ended before
C32_Witness ==
  /\ sdk.pc = "rejected"
  /\ sdk.error = ErrPaymentFailed
  /\ sdk.calls = 2
  /\ sdk.currentSession # Null
  /\ sdk.currentSession.sessionId = 1
  /\ isGameActive(sdk)
  /\ sdk.loadGame # Null
  /\ sdk.loadGame.outcome = Thrown

\* ---- the merchant wallet (C33..C35, specification WalletSpec)
Spaces(n) == [i \in 1..n |-> Space]

\* text is what is left of whole between its leading and its trailing blanks
IsTrimmed(text, whole) ==
  /\ \E i, j \in 0..Len(whole) : whole = Spaces(i) \o text \o Spaces(j)
  /\ text # << >> => text[1] # Space /\ text[Len(text)] # Space

\* the string is there and is not blank
HasText(string) ==
  string.defined /\ \E i \in 1..Len(string.text) : string.text[i] # Space

\* the middleware with fallbacks has resolved the wallet of the request
ResolvedWithFallbacks == walletRequest.revision = "fallback"

\* the address of the lowest priority: the fallback address the middleware was
\* made with, FACILITATOR_PUBLIC_KEY without one, the placeholder without both
DefaultAddress ==
  IF walletRequest.fallbackAddress.defined /\ Len(walletRequest.fallbackAddress.text) > 0
  THEN walletRequest.fallbackAddress
  ELSE IF walletRequest.env.FACILITATOR_PUBLIC_KEY.defined
          /\ Len(walletRequest.env.FACILITATOR_PUBLIC_KEY.text) > 0
  THEN walletRequest.env.FACILITATOR_PUBLIC_KEY
  ELSE NotConfiguredWallet

\* C33: resolveMerchantWallet gives the trimmed X-Developer-Wallet header with
\* source 'header' when the header is not blank; otherwise the trimmed
\* MERCHANT_SOLANA_ADDRESS with source 'environment' when that is not blank;
\* otherwise the fallback address with source 'default'; and fallbackUsed is
\* true exactly when the source is 'default'.
C33_ResolvePriority ==
  ResolvedWithFallbacks =>
    LET info == walletRequest.merchantWallet
        header == walletRequest.header
        merchant == walletRequest.env.MERCHANT_SOLANA_ADDRESS
    IN  /\ HasText(header) =>
             /\ info.source = "header"
             /\ info.address.defined
             /\ IsTrimmed(info.address.text, header.text)
        /\ ~HasText(header) /\ HasText(merchant) =>
             /\ info.source = "environment"
             /\ info.address.defined
             /\ IsTrimmed(info.address.text, merchant.text)
        /\ ~HasText(header) /\ ~HasText(merchant) =>
             /\ info.source = "default"
             /\ info.address = DefaultAddress
        /\ info.fallbackUsed <=> info.source = "default"

\* a blank header and an environment value with blanks around it
C33_Witness ==
  /\ ResolvedWithFallbacks
  /\ walletRequest.header = Str(<< Space, Space >>)
  /\ walletRequest.env.MERCHANT_SOLANA_ADDRESS = Str(<< Space, "e", Space >>)
  /\ walletRequest.merchantWallet =
       MerchantWalletInfo(Str(<< "e" >>), "environment", FALSE)

\* the header-required middleware has run on the request
HeaderRequiredRan == walletRequest.revision = "required"

\* C34: once the header-required middleware has run on a request, a request
\* without a non-blank X-Developer-Wallet header has been answered 400, its
\* merchantWallet is unset and next() has not been called for it, then or
\* later; a request with the header has its merchantWallet set from the
\* trimmed header, has not been answered 400, and next() has been called
\* exactly once.
C34_HeaderRequired ==
  HeaderRequiredRan =>
    LET info == walletRequest.merchantWallet
        header == walletRequest.header
    IN  IF HasText(header)
        THEN /\ info # Null
             /\ info.source = "header"
             /\ ~info.fallbackUsed
             /\ info.address.defined
             /\ IsTrimmed(info.address.text, header.text)
             /\ walletRequest.next = 1
             /\ walletRequest.res # Null => walletRequest.res.status # 400
        ELSE /\ walletRequest.res # Null
             /\ walletRequest.res.status = 400
             /\ walletRequest.next = 0
             /\ info = Null

\* a blank header, with an environment address that would have served the
\* other revision, is answered 400
C34_Witness ==
  /\ HeaderRequiredRan
  /\ walletRequest.header = Str(<< Space >>)
  /\ walletRequest.env.MERCHANT_SOLANA_ADDRESS = Str(<< "e" >>)
  /\ walletRequest.res = HeaderRequired400
  /\ walletRequest.next = 0

\* C35: the fallbackUsed of the answer of GET /merchant-wallet is the
\* fallbackUsed of the wallet resolved for the request.
C35_ReportsFallbackUsed ==
  walletRequest.res # Null /\ walletRequest.res.status = 200 =>
    /\ walletRequest.merchantWallet # Null
    /\ walletRequest.res.wallet.fallbackUsed = walletRequest.merchantWallet.fallbackUsed

====
